---- MODULE Spec2Model ----
(***************************************************************************)
(* A model of slack_summary_bot.py: the message normalizer                 *)
(* (format_messages), the thread splice (update_message_list), the thread  *)
(* reconstruction loop (process_messages), the time window                 *)
(* (get_time_range), the summary post-processing of                        *)
(* get_summary_from_openai, the digest assembler                           *)
(* (create_slack_message_blocks), and a whole run of main with             *)
(* get_bot_channels, process_channels and the post.                        *)
(*                                                                         *)
(* Python values: a dict is a record, a list a sequence, a str either a    *)
(* TLA+ string (identifiers, timestamps) or a sequence of one-character    *)
(* strings (the model output, which the code searches and slices).  A key  *)
(* that a dict does not hold is the field value None, which is what        *)
(* dict.get returns for it.                                                *)
(***************************************************************************)
EXTENDS Integers, Sequences, FiniteSets, TLC

VARIABLES
    pc,                 \* position of the function or coroutine under way
    call,               \* the arguments the function under way was called with
    ret,                \* its return value, once it has returned
    processed_messages, \* process_messages: the list being iterated and spliced
    it,                 \* process_messages: the list iterator's index (0-based)
    normalized,         \* process_messages: format_messages' return value (line 246)
    channel,            \* the platform: the messages of the channel, oldest first
    replies_log,        \* the conversations_replies calls made so far, with their outcome
    main_pc,            \* main: the position of the run
    config,             \* SUMMARY_CHANNEL, IGNORE_CHANNELS and RUN_DAILY (lines 18-24)
    clock,              \* datetime.now()
    workspace,          \* the platform: the channels the bot is a member of, with their messages
    window,             \* main: start_time, end_time (line 501)
    bot_channels,       \* main: bot_user_id, channels (line 510)
    fetches,            \* process_channels: the fetch_messages tasks and their results
    channel_data,       \* process_channels and main: the channel_info dicts
    summaries,          \* main: the get_summary tasks and their results
    digest,             \* main: blocks (line 534)
    calls               \* the platform and model calls issued so far, in order

\* the state of a run of main
mainvars ==
    <<main_pc, config, clock, workspace, window, bot_channels, fetches,
      channel_data, summaries, digest, calls>>

vars ==
    <<pc, call, ret, processed_messages, it, normalized, channel, replies_log,
      main_pc, config, clock, workspace, window, bot_channels, fetches,
      channel_data, summaries, digest, calls>>

\* main is not running: a function of the module is called on its own
MainIdle ==
    /\ main_pc = "idle"
    /\ config = <<>>
    /\ clock = 0
    /\ workspace = <<>>
    /\ window = <<>>
    /\ bot_channels = <<>>
    /\ fetches = <<>>
    /\ channel_data = <<>>
    /\ summaries = <<>>
    /\ digest = <<>>
    /\ calls = <<>>

None == "<None>"

\* ------------------------------------------------------------------ bounds

\* longest raw message list handed to format_messages on its own
MaxRaw == 2
\* longest message list and reply list handed to update_message_list on its own
MaxList == 3
MaxThreaded == 2
\* most messages a channel of the platform holds
MaxChannel == 3
\* latest wall-clock time of a get_time_range call, in hours since the epoch
MaxNow == 200
\* most pieces (a marker, the sentinel, a blank, a letter) of a model output
MaxPieces == 5
\* most channel records handed to create_slack_message_blocks on its own
MaxRecords == 3

\* ------------------------------------------------------------- timestamps

\* The "ts" strings of the model and what float() makes of them.  Two strings
\* may encode the same number, and string order is not numeric order.
TsStrings == {"99", "100", "100.0", "101", "102", "103", "104", "106"}

Float(s) ==
    CASE s = "99" -> 99
      [] s = "100" -> 100
      [] s = "100.0" -> 100
      [] s = "101" -> 101
      [] s = "102" -> 102
      [] s = "103" -> 103
      [] s = "104" -> 104
      [] s = "106" -> 106

\* Python truthiness of a value returned by dict.get
Truthy(v) == v # None /\ v # ""

\* dict.get(key, default)
Get(v, default) == IF v = None THEN default ELSE v

\* ---------------------------------------------------------- list helpers

RECURSIVE SeqsUpTo(_, _)
SeqsUpTo(S, n) ==
    IF n = 0 THEN {<<>>}
    ELSE LET shorter == SeqsUpTo(S, n - 1)
         IN shorter \cup {Append(s, x) : s \in {t \in shorter : Len(t) = n - 1}, x \in S}

\* list.sort(key=lambda x: float(x["ts"])): a stable sort.  Each element goes
\* behind the elements already placed whose key is not greater.
InsertUnstable(sorted, m) ==
    LET k == Cardinality({i \in 1..Len(sorted) : Float(sorted[i].ts) < Float(m.ts)})
    IN SubSeq(sorted, 1, k) \o <<m>> \o SubSeq(sorted, k + 1, Len(sorted))

InsertByTs(sorted, m) ==
    LET k == Cardinality({i \in 1..Len(sorted) : Float(sorted[i].ts) <= Float(m.ts)})
    IN SubSeq(sorted, 1, k) \o <<m>> \o SubSeq(sorted, k + 1, Len(sorted))

RECURSIVE SortByTs(_)
SortByTs(s) ==
    IF s = <<>> THEN <<>>
    ELSE InsertByTs(SortByTs(SubSeq(s, 1, Len(s) - 1)), s[Len(s)])

\* -------------------------------------------------------- format_messages

\* the condition of the if statement, lines 188-195
KeepNoBotCheck(message, bot_user_id) ==
    /\ message.type = "message"
    /\ (~Truthy(message.subtype) \/ message.subtype = "thread_broadcast")

Keep(message, bot_user_id) ==
    /\ message.type = "message"
    /\ (~Truthy(message.subtype) \/ message.subtype = "thread_broadcast")
    /\ message.user # bot_user_id

\* the dict built at lines 196-201
FormattedMessage(message) ==
    [user |-> Get(message.user, ""),
     text |-> Get(message.text, ""),
     ts |-> Get(message.ts, ""),
     thread_ts |-> Get(message.thread_ts, "")]

\* the for loop, lines 186-202: the kept messages' dicts in input order
RECURSIVE Appended(_, _)
Appended(messages, bot_user_id) ==
    IF messages = <<>> THEN <<>>
    ELSE LET rest == Appended(SubSeq(messages, 1, Len(messages) - 1), bot_user_id)
             message == messages[Len(messages)]
         IN IF Keep(message, bot_user_id)
            THEN Append(rest, FormattedMessage(message))
            ELSE rest

format_messages_unsorted(messages, bot_user_id) == Appended(messages, bot_user_id)

format_messages(messages, bot_user_id) == SortByTs(Appended(messages, bot_user_id))

\* ------------------------------------------------- inputs: format_messages

\* Raw messages as the platform returns them: every one carries a "ts"; a
\* subtype tag, where there is one, is a non-empty string.
RawTs == {"99", "100", "100.0"}

RawMessages ==
    [type : {"message", "file_share"},
     subtype : {None, "thread_broadcast", "bot_message"},
     user : {"U1", "BOT"},
     text : {"hi"},
     ts : RawTs,
     thread_ts : {None, "100"}]
    \cup
    \* messages that lack a key the code reads with a default
    {[type |-> "message", subtype |-> None, user |-> None, text |-> None,
      ts |-> "100", thread_ts |-> None],
     [type |-> None, subtype |-> None, user |-> "U1", text |-> "hi",
      ts |-> "99", thread_ts |-> None]}

BotIds == {"BOT"}

InitFormat ==
    /\ pc = "format_messages"
    /\ call \in [messages : SeqsUpTo(RawMessages, MaxRaw), bot_user_id : BotIds]
    /\ ret = None
    /\ processed_messages = <<>>
    /\ it = 0
    /\ normalized = <<>>
    /\ channel = <<>>
    /\ replies_log = <<>>
    /\ MainIdle

\* format_messages called on its own (as tests/test_basic.py does)
CallFormatMessages ==
    /\ pc = "format_messages"
    /\ ret' = format_messages(call.messages, call.bot_user_id)
    /\ pc' = "returned"
    /\ UNCHANGED <<call, processed_messages, it, normalized, channel, replies_log>>
    /\ UNCHANGED mainvars

NextFormat == CallFormatMessages

SpecFormat == InitFormat /\ [][NextFormat]_vars

\* ------------------------------------------------- claims: format_messages

\* the filtering rule and the projection as the specification words them
ClaimSurvives(m, bot) ==
    /\ m.type = "message"
    /\ (m.subtype = None \/ m.subtype = "thread_broadcast")
    /\ m.user # bot

ClaimProjection(m) ==
    [user |-> IF m.user = None THEN "" ELSE m.user,
     text |-> IF m.text = None THEN "" ELSE m.text,
     ts |-> m.ts,
     thread_ts |-> IF m.thread_ts = None THEN "" ELSE m.thread_ts]

Count(s, x) == Cardinality({i \in 1..Len(s) : s[i] = x})

Elements(s) == {s[i] : i \in 1..Len(s)}

SameElements(s, t) ==
    \A x \in Elements(s) \cup Elements(t) : Count(s, x) = Count(t, x)

IsSortedByTs(s) ==
    \A i, j \in 1..Len(s) : i < j => Float(s[i].ts) <= Float(s[j].ts)

\* the elements of s whose timestamp has the numeric value v, in the order of s
RECURSIVE WithValue(_, _)
WithValue(s, v) ==
    IF s = <<>> THEN <<>>
    ELSE IF Float(s[1].ts) = v
         THEN <<s[1]>> \o WithValue(Tail(s), v)
         ELSE WithValue(Tail(s), v)

\* the projections of the surviving input messages, in input order
RECURSIVE ClaimSurvivors(_, _)
ClaimSurvivors(messages, bot) ==
    IF messages = <<>> THEN <<>>
    ELSE IF ClaimSurvives(messages[1], bot)
         THEN <<ClaimProjection(messages[1])>> \o ClaimSurvivors(Tail(messages), bot)
         ELSE ClaimSurvivors(Tail(messages), bot)

\* C1: format_messages returns exactly the projections {user, text, ts,
\* thread_ts (default "")} of the input messages whose type is "message", whose
\* subtype is absent or "thread_broadcast" and whose user is not the bot id:
\* every survivor is returned as often as it was given, and nothing else is.
C1_ExactlyTheSurvivors ==
    pc = "returned" =>
        /\ Len(ret) = Cardinality({i \in 1..Len(call.messages) :
                                     ClaimSurvives(call.messages[i], call.bot_user_id)})
        /\ \A i \in 1..Len(call.messages) :
              ClaimSurvives(call.messages[i], call.bot_user_id) =>
                  Count(ret, ClaimProjection(call.messages[i])) =
                      Cardinality({j \in 1..Len(call.messages) :
                          /\ ClaimSurvives(call.messages[j], call.bot_user_id)
                          /\ ClaimProjection(call.messages[j]) =
                                 ClaimProjection(call.messages[i])})
        /\ \A k \in 1..Len(ret) :
              \E i \in 1..Len(call.messages) :
                  /\ ClaimSurvives(call.messages[i], call.bot_user_id)
                  /\ ret[k] = ClaimProjection(call.messages[i])

\* a bot message is dropped and a message without thread_ts is kept, with ""
C1_Witness ==
    /\ pc = "returned"
    /\ Len(call.messages) = 2
    /\ \E i \in 1..2 : /\ call.messages[i].user = call.bot_user_id
                        /\ call.messages[i].type = "message"
                        /\ call.messages[i].subtype = None
    /\ Len(ret) = 1
    /\ ret[1].thread_ts = ""

\* C2: the output of format_messages is sorted ascending by the numeric value
\* of ts, and survivors with numerically equal timestamps keep the relative
\* order they had in the input.
C2_SortedAndStable ==
    pc = "returned" =>
        /\ IsSortedByTs(ret)
        /\ \A t \in RawTs :
              WithValue(ret, Float(t)) =
                  WithValue(ClaimSurvivors(call.messages, call.bot_user_id), Float(t))

\* two survivors whose timestamps differ as strings and agree as numbers, the
\* later string first in the input
C2_Witness ==
    /\ pc = "returned"
    /\ Len(call.messages) = 2
    /\ call.messages[1].ts = "100.0"
    /\ call.messages[2].ts = "100"
    /\ Len(ret) = 2
    /\ ret[1].ts = "100.0"
    /\ ret[2].ts = "100"

\* ---------------------------------------------------- update_message_list

\* next((i for i, msg in enumerate(message_list) if msg["ts"] == parent_ts), -1)
ParentIndex(message_list, parent_ts) ==
    LET hits == {i \in 1..Len(message_list) : message_list[i].ts = parent_ts}
    IN IF hits = {} THEN -1
       ELSE (CHOOSE i \in hits : \A j \in hits : i <= j) - 1

\* message_list[at:at + len(threaded_messages)] = threaded_messages
SliceOverwrite(message_list, at, threaded_messages) ==
    SubSeq(message_list, 1, at) \o threaded_messages
        \o SubSeq(message_list, at + Len(threaded_messages) + 1, Len(message_list))

\* message_list[at:at] = threaded_messages
SliceInsert(message_list, at, threaded_messages) ==
    SubSeq(message_list, 1, at) \o threaded_messages
        \o SubSeq(message_list, at + 1, Len(message_list))

update_message_list_before_parent(message_list, threaded_messages, parent_ts) ==
    LET threaded == SortByTs(threaded_messages)
        parent_index == ParentIndex(message_list, parent_ts)
    IN IF parent_index # -1
       THEN SliceInsert(message_list, parent_index, threaded)
       ELSE message_list

update_message_list(message_list, threaded_messages, parent_ts) ==
    LET threaded == SortByTs(threaded_messages)
        parent_index == ParentIndex(message_list, parent_ts)
    IN IF parent_index # -1
       THEN SliceInsert(message_list, parent_index + 1, threaded)
       ELSE message_list

\* --------------------------------------------- inputs: update_message_list

SpliceTs == {"100", "100.0", "101", "102"}

Msg(user, ts, thread_ts) ==
    [user |-> user, text |-> "hi", ts |-> ts, thread_ts |-> thread_ts]

ListMessages == {Msg("U1", t, "") : t \in SpliceTs}
ThreadedMessages == {Msg("U2", t, "101") : t \in SpliceTs}

\* the example of the specification's testable property 3
ExampleSplice ==
    [message_list |-> <<Msg("U1", "100", ""), Msg("U1", "101", "101"),
                        Msg("U3", "103", "101"), Msg("U1", "104", ""),
                        Msg("U1", "106", "")>>,
     threaded_messages |-> <<Msg("U2", "102", "101"), Msg("U3", "103", "101")>>,
     parent_ts |-> "101"]

InitSplice ==
    /\ pc = "update_message_list"
    /\ call \in [message_list : SeqsUpTo(ListMessages, MaxList),
                 threaded_messages : SeqsUpTo(ThreadedMessages, MaxThreaded),
                 parent_ts : SpliceTs]
              \cup {ExampleSplice}
    /\ ret = None
    /\ processed_messages = <<>>
    /\ it = 0
    /\ normalized = <<>>
    /\ channel = <<>>
    /\ replies_log = <<>>
    /\ MainIdle

\* update_message_list called on its own (as tests/test_basic.py does)
CallUpdateMessageList ==
    /\ pc = "update_message_list"
    /\ ret' = update_message_list(call.message_list, call.threaded_messages,
                                  call.parent_ts)
    /\ pc' = "returned"
    /\ UNCHANGED <<call, processed_messages, it, normalized, channel, replies_log>>
    /\ UNCHANGED mainvars

NextSplice == CallUpdateMessageList

SpecSplice == InitSplice /\ [][NextSplice]_vars

\* --------------------------------------------- claims: update_message_list

TsOf(s) == [i \in 1..Len(s) |-> s[i].ts]

HasParent == \E i \in 1..Len(call.message_list) : call.message_list[i].ts = call.parent_ts

\* the 1-based position of the first element whose ts is the string parent_ts
FirstParent ==
    CHOOSE i \in 1..Len(call.message_list) :
        /\ call.message_list[i].ts = call.parent_ts
        /\ \A j \in 1..(i - 1) : call.message_list[j].ts # call.parent_ts

\* C3: when an element of the list has ts exactly equal to root_ts, the result
\* is the list with the replies, sorted ascending by numeric ts, inserted right
\* after the first such element: the elements up to it and the elements after
\* it are kept in order, and the length grows by len(replies).  When no element
\* has that ts the result is the list unchanged.
C3_SpliceAfterFirstParent ==
    pc = "returned" =>
        IF HasParent
        THEN LET n == Len(call.threaded_messages)
                 run == SubSeq(ret, FirstParent + 1, FirstParent + n)
             IN /\ Len(ret) = Len(call.message_list) + n
                /\ \A i \in 1..FirstParent : ret[i] = call.message_list[i]
                /\ \A i \in (FirstParent + 1)..Len(call.message_list) :
                      ret[i + n] = call.message_list[i]
                /\ IsSortedByTs(run)
                /\ SameElements(run, call.threaded_messages)
        ELSE ret = call.message_list

\* two replies given in descending order, spliced after the first of two
\* elements with the parent's ts, with an element after them
C3_Witness ==
    /\ pc = "returned"
    /\ HasParent
    /\ Len(call.message_list) = 3
    /\ call.message_list[1].ts = call.parent_ts
    /\ call.message_list[3].ts = call.parent_ts
    /\ Len(call.threaded_messages) = 2
    /\ Float(call.threaded_messages[1].ts) > Float(call.threaded_messages[2].ts)
    /\ Len(ret) = 5

ChanOrder == <<"100", "101", "102", "103">>

RootTs == {"100", "101"}

Raw(user, subtype, ts, thread_ts) ==
    [type |-> "message", subtype |-> subtype, user |-> user, text |-> "hi",
     ts |-> ts, thread_ts |-> thread_ts]

IsReply(m) == Truthy(m.thread_ts) /\ m.thread_ts # m.ts

MessagesAt(t) ==
    {Raw("U1", None, t, None), Raw("U1", None, t, t), Raw("BOT", None, t, None)}
    \cup {Raw("U2", None, t, r) : r \in {x \in RootTs : Float(x) < Float(t)}}
    \cup {Raw("U2", "thread_broadcast", t, r) : r \in {x \in RootTs : Float(x) < Float(t)}}
    \cup {Raw("BOT", None, t, r) : r \in {x \in RootTs : Float(x) < Float(t)}}

\* a reply's root, when the channel holds it, is a thread root
Consistent(c, m) ==
    IsReply(m) =>
        \A i \in 1..Len(c) : c[i].ts = m.thread_ts => c[i].thread_ts = c[i].ts

RECURSIVE Contents(_)
Contents(k) ==
    IF k = 0 THEN {<<>>}
    ELSE LET before == Contents(k - 1)
         IN before \cup
            {Append(c, m) : c \in {x \in before : Len(x) < MaxChannel},
                            m \in MessagesAt(ChanOrder[k])}

ChannelContents ==
    {c \in Contents(Len(ChanOrder)) :
        \A i \in 1..Len(c) : Consistent(SubSeq(c, 1, i - 1), c[i])}

\* the elements of s at the positions in I, in the order of s
RECURSIVE Pick(_, _)
Pick(s, I) ==
    IF s = <<>> THEN <<>>
    ELSE LET front == Pick(SubSeq(s, 1, Len(s) - 1), I)
         IN IF Len(s) \in I THEN Append(front, s[Len(s)]) ELSE front

RECURSIVE Reverse(_)
Reverse(s) == IF s = <<>> THEN <<>> ELSE Append(Reverse(Tail(s)), s[1])

\* result["messages"] of conversations_history: the top-level messages, the
\* thread roots and the broadcast replies, newest first or oldest first
InHistory(m) == ~IsReply(m) \/ m.subtype = "thread_broadcast"

History(c, order) ==
    LET found == Pick(c, {i \in 1..Len(c) : InHistory(c[i])})
    IN IF order = "oldest first" THEN found ELSE Reverse(found)

\* result["messages"] of conversations_replies(ts=thread_ts): the root, then
\* the thread's replies oldest first
IsRoot(m, thread_ts) == m.ts = thread_ts
IsReplyTo(m, thread_ts) == m.thread_ts = thread_ts /\ m.ts # thread_ts

Replies(c, thread_ts) ==
    Pick(c, {i \in 1..Len(c) : IsRoot(c[i], thread_ts)})
        \o Pick(c, {i \in 1..Len(c) : IsReplyTo(c[i], thread_ts)})

\* -------------------------------------------------------- process_messages

\* line 248
IsThreadRoot(message) ==
    Truthy(message.thread_ts) /\ message.thread_ts = message.ts

Init ==
    /\ pc = "process_messages"
    /\ channel \in ChannelContents
    /\ \E order \in {"oldest first", "newest first"} :
          call = [channel_id |-> "C1", messages |-> History(channel, order),
                  bot_user_id |-> "BOT"]
    /\ ret = None
    /\ processed_messages = <<>>
    /\ it = 0
    /\ normalized = <<>>
    /\ replies_log = <<>>
    /\ MainIdle

\* line 246
Format ==
    /\ pc = "process_messages"
    /\ processed_messages' = format_messages(call.messages, call.bot_user_id)
    /\ normalized' = processed_messages'
    /\ it' = 0
    /\ pc' = "for"
    /\ UNCHANGED <<call, ret, channel, replies_log>>
    /\ UNCHANGED mainvars

\* lines 247-248: the iterator yields a message that is no thread root
Skip ==
    /\ pc = "for"
    /\ it < Len(processed_messages)
    /\ ~IsThreadRoot(processed_messages[it + 1])
    /\ it' = it + 1
    /\ UNCHANGED <<pc, call, ret, processed_messages, normalized, channel, replies_log>>
    /\ UNCHANGED mainvars

\* lines 247-252: the iterator yields a thread root; fetch_thread_replies
\* (lines 162-170) returns the formatted replies, or [] on SlackApiError, and
\* update_message_list splices them into the list that is being iterated
Reconstruct ==
    /\ pc = "for"
    /\ it < Len(processed_messages)
    /\ IsThreadRoot(processed_messages[it + 1])
    /\ LET message == processed_messages[it + 1]
       IN \/ LET result == Replies(channel, message.ts)
                 replies == format_messages(Tail(result), call.bot_user_id)
             IN /\ processed_messages' =
                       update_message_list(processed_messages, replies, message.ts)
                /\ replies_log' = Append(replies_log,
                       [channel |-> call.channel_id, ts |-> message.ts, outcome |-> "ok", replies |-> replies])
                /\ it' = it + 1
                /\ UNCHANGED <<pc, ret>>
          \/ /\ processed_messages' =
                     update_message_list(processed_messages, <<>>, message.ts)
             /\ replies_log' = Append(replies_log,
                     [channel |-> call.channel_id, ts |-> message.ts, outcome |-> "SlackApiError", replies |-> <<>>])
             /\ it' = it + 1
             /\ UNCHANGED <<pc, ret>>
          \* an exception that is no SlackApiError leaves fetch_thread_replies
          \* and process_messages
          \/ /\ replies_log' = Append(replies_log,
                     [channel |-> call.channel_id, ts |-> message.ts, outcome |-> "Exception", replies |-> <<>>])
             /\ pc' = "raised"
             /\ UNCHANGED <<processed_messages, it, ret>>
    /\ UNCHANGED <<call, normalized, channel>>
    /\ UNCHANGED mainvars

\* line 253: the iterator is exhausted
Return ==
    /\ pc = "for"
    /\ it >= Len(processed_messages)
    /\ ret' = processed_messages
    /\ pc' = "returned"
    /\ UNCHANGED <<call, processed_messages, it, normalized, channel, replies_log>>
    /\ UNCHANGED mainvars

Next == Format \/ Skip \/ Reconstruct \/ Return

Spec == Init /\ [][Next]_vars

\* ----------------------------------------------- claims: process_messages

\* s is t with elements left out
RECURSIVE IsSubsequence(_, _)
IsSubsequence(s, t) ==
    IF s = <<>> THEN TRUE
    ELSE IF t = <<>> THEN FALSE
    ELSE IF s[1] = t[1] THEN IsSubsequence(Tail(s), Tail(t))
    ELSE IsSubsequence(s, Tail(t))

\* C5 as stated: the final message sequence that process_messages returns is
\* sorted ascending by numeric timestamp.
C5_FinalSequenceSorted ==
    pc = "returned" => IsSortedByTs(ret)

\* C5 as amended: the messages of the normalized channel history are sorted
\* ascending by numeric timestamp and keep that order in the final sequence
\* (the normalized history is the final sequence with the spliced replies left
\* out), and the final sequence is sorted when no reply was spliced in.
C5_HistorySortedWithinFinal ==
    pc = "returned" =>
        /\ IsSortedByTs(normalized)
        /\ IsSubsequence(normalized, ret)
        /\ (Len(ret) = Len(normalized) => IsSortedByTs(ret))

\* a reply was spliced in before a history message with a smaller timestamp,
\* and the history had come newest first
C5_Witness ==
    /\ pc = "returned"
    /\ Len(call.messages) >= 2
    /\ Float(call.messages[1].ts) > Float(call.messages[2].ts)
    /\ Len(ret) > Len(normalized)
    /\ ~IsSortedByTs(ret)

\* a reply, and the positions in s of the message its thread_ts names
IsThreadReply(m) == m.thread_ts # "" /\ m.thread_ts # m.ts

RootsOf(s, m) == {i \in 1..Len(s) : s[i].ts = m.thread_ts}

\* C6 as stated: in the final sequence every thread reply, also one that
\* arrived in the channel history, lies in the contiguous run of replies that
\* starts immediately after its thread root.
C6_EveryReplyInRunAfterRoot ==
    pc = "returned" =>
        \A j \in 1..Len(ret) :
            (IsThreadReply(ret[j]) /\ RootsOf(ret, ret[j]) # {}) =>
                \E i \in RootsOf(ret, ret[j]) :
                    /\ i < j
                    /\ \A k \in (i + 1)..j :
                          IsThreadReply(ret[k]) /\ ret[k].thread_ts = ret[j].thread_ts

\* C6 as amended: in the final sequence the replies spliced in for a thread
\* root (the formatted result of its reply fetch) are the contiguous run that
\* starts immediately after that root; a reply that arrived in the channel
\* history keeps its place among the history messages.
C6_SplicedRepliesInRunAfterRoot ==
    pc = "returned" =>
        /\ \A e \in 1..Len(replies_log) :
              LET root == replies_log[e].ts
                  replies == replies_log[e].replies
                  at == CHOOSE i \in 1..Len(ret) :
                            /\ ret[i].ts = root
                            /\ \A j \in 1..(i - 1) : ret[j].ts # root
              IN /\ \E i \in 1..Len(ret) : ret[i].ts = root
                 /\ at + Len(replies) <= Len(ret)
                 /\ \A k \in 1..Len(replies) : ret[at + k] = replies[k]
        /\ IsSubsequence(normalized, ret)

\* a root's reply was spliced in right after it while a broadcast reply of
\* the same thread stands later in the history, behind another message
C6_Witness ==
    /\ pc = "returned"
    /\ Len(replies_log) = 1
    /\ Len(replies_log[1].replies) >= 1
    /\ Len(ret) = 4
    /\ ret[1].ts = replies_log[1].ts
    /\ ret[2] = replies_log[1].replies[1]
    /\ ~IsThreadReply(ret[3])
    /\ IsThreadReply(ret[4])
    /\ ret[4].thread_ts = ret[1].ts

\* ---------------------------------------------------------- get_time_range

\* A datetime is a number of hours since Monday 2024-04-08 00:00 (the week of
\* tests/test_basic.py's fixed_now).  A value that may be None is a sequence:
\* <<>> for None, <<d>> for the datetime d.
Nothing == <<>>
Some(d) == <<d>>

\* timedelta(days=n), in hours
timedelta(days) == days * 24

\* datetime.weekday(): 0 is Monday, 6 is Sunday
weekday(now) == (now \div 24) % 7

get_time_range_monday_as_any_day(now, RUN_DAILY) ==
    IF RUN_DAILY
    THEN <<Some(now - timedelta(1)), Some(now)>>
    ELSE IF weekday(now) \in {5, 6}
         THEN <<Nothing, Nothing>>
         ELSE <<Some(now - timedelta(1)), Some(now)>>

\* lines 104-116 without the weekend branch (lines 111-112)
get_time_range_on_weekends_too(now, RUN_DAILY) ==
    IF RUN_DAILY
    THEN <<Some(now - timedelta(1)), Some(now)>>
    ELSE IF weekday(now) = 0
         THEN <<Some(now - timedelta(3)), Some(now)>>
         ELSE <<Some(now - timedelta(1)), Some(now)>>

\* lines 104-116, with end_time = datetime.now() given as now
get_time_range(now, RUN_DAILY) ==
    IF RUN_DAILY
    THEN <<Some(now - timedelta(1)), Some(now)>>
    ELSE IF weekday(now) = 0
         THEN <<Some(now - timedelta(3)), Some(now)>>
         ELSE IF weekday(now) \in {5, 6}
              THEN <<Nothing, Nothing>>
              ELSE <<Some(now - timedelta(1)), Some(now)>>

InitTime ==
    /\ pc = "get_time_range"
    /\ call \in [now : 0..MaxNow, RUN_DAILY : BOOLEAN]
    /\ ret = None
    /\ processed_messages = <<>>
    /\ it = 0
    /\ normalized = <<>>
    /\ channel = <<>>
    /\ replies_log = <<>>
    /\ MainIdle

\* get_time_range called on its own (as tests/test_basic.py does)
CallGetTimeRange ==
    /\ pc = "get_time_range"
    /\ ret' = get_time_range(call.now, call.RUN_DAILY)
    /\ pc' = "returned"
    /\ UNCHANGED <<call, processed_messages, it, normalized, channel, replies_log>>
    /\ UNCHANGED mainvars

NextTime == CallGetTimeRange

SpecTime == InitTime /\ [][NextTime]_vars

\* -------------------------------------------------- claims: get_time_range

DayNames == <<"Monday", "Tuesday", "Wednesday", "Thursday", "Friday",
              "Saturday", "Sunday">>

\* the day of the week of a time, counted in whole days from the epoch's Monday
DayName(now) ==
    LET days == CHOOSE d \in 0..now : d * 24 <= now /\ now < (d + 1) * 24
    IN DayNames[(days % 7) + 1]

\* the window [now - n days, now)
Window(now, n) == <<Some(now - n * 24), Some(now)>>

\* C7: in daily mode get_time_range returns [now - 1 day, now) on every
\* weekday; in weekly-aware mode it returns [now - 3 days, now) on Monday, the
\* skip sentinel (None, None) on Saturday and Sunday and [now - 1 day, now) on
\* Tuesday through Friday.
C7_TimeWindow ==
    pc = "returned" =>
        IF call.RUN_DAILY THEN ret = Window(call.now, 1)
        ELSE CASE DayName(call.now) = "Monday" -> ret = Window(call.now, 3)
               [] DayName(call.now) \in {"Saturday", "Sunday"} -> ret = <<Nothing, Nothing>>
               [] OTHER -> ret = Window(call.now, 1)

\* a Monday of the second week, in weekly-aware mode: three days back
C7_Witness ==
    /\ pc = "returned"
    /\ ~call.RUN_DAILY
    /\ call.now = 7 * 24 + 12
    /\ ret = <<Some(4 * 24 + 12), Some(7 * 24 + 12)>>

\* ----------------------------------------------------------- str operations

\* A str that the code searches, slices or strips is a sequence of
\* one-character strings.
AnalysisStart == <<"<", "a", "n", "a", "l", "y", "s", "i", "s", ">">>
AnalysisEnd == <<"<", "/", "a", "n", "a", "l", "y", "s", "i", "s", ">">>
Exclude == <<"<", "E", "X", "C", "L", "U", "D", "E", ">">>
ErrorPrefix == <<"E", "r", "r", "o", "r", " ", "g", "e", "t", "t", "i", "n", "g", " ", "s", "u", "m", "m", "a", "r", "y", ":", " ">>

Whitespace == {" ", "\n", "\t"}

\* sub in s at the 0-based index i
OccursAt(s, sub, i) ==
    /\ i + Len(sub) <= Len(s)
    /\ \A k \in 1..Len(sub) : s[i + k] = sub[k]

\* str.find: the lowest index where sub occurs, or -1
Find(s, sub) ==
    LET hits == {i \in 0..Len(s) : OccursAt(s, sub, i)}
    IN IF hits = {} THEN -1 ELSE CHOOSE i \in hits : \A j \in hits : i <= j

\* sub in s
In(sub, s) == \E i \in 0..Len(s) : OccursAt(s, sub, i)

\* s[:stop] and s[start:], for 0 <= start, stop
UpTo(s, stop) == SubSeq(s, 1, IF stop < Len(s) THEN stop ELSE Len(s))
From(s, start) == IF start >= Len(s) THEN <<>> ELSE SubSeq(s, start + 1, Len(s))

\* str.strip()
RECURSIVE LStrip(_)
LStrip(s) ==
    IF s # <<>> /\ s[1] \in Whitespace THEN LStrip(Tail(s)) ELSE s

RECURSIVE RStrip(_)
RStrip(s) ==
    IF s # <<>> /\ s[Len(s)] \in Whitespace
    THEN RStrip(SubSeq(s, 1, Len(s) - 1)) ELSE s

Strip(s) == RStrip(LStrip(s))

\* ------------------------------------------------- get_summary_from_openai

\* lines 360-364 with the end marker's length taken one short
CutAnalysisOneShort(full_text, analysis_start, analysis_end) ==
    LET before_analysis == Strip(UpTo(full_text, analysis_start))
        after_analysis == Strip(From(full_text, analysis_end + 10))
    IN Strip(before_analysis \o <<" ">> \o after_analysis)

\* lines 360-370
CutAnalysis(full_text, analysis_start, analysis_end) ==
    LET before_analysis == Strip(UpTo(full_text, analysis_start))
        after_analysis == Strip(From(full_text, analysis_end + 11))
    IN Strip(before_analysis \o <<" ">> \o after_analysis)

\* lines 348-351 with the "not" left out
ShortCircuitsWithAnalysis(full_text) ==
    In(Exclude, full_text) /\ In(AnalysisStart, full_text)

\* lines 348-351
ShortCircuits(full_text) ==
    In(Exclude, full_text) /\ ~In(AnalysisStart, full_text)

\* lines 345-372: what is returned for the text of a content item
ProcessText(full_text) ==
    IF ShortCircuits(full_text) THEN Exclude
    ELSE LET analysis_start == Find(full_text, AnalysisStart)
             analysis_end == Find(full_text, AnalysisEnd)
         IN IF analysis_start # -1 /\ analysis_end # -1
            THEN CutAnalysis(full_text, analysis_start, analysis_end)
            ELSE full_text

\* A response: output is a list of items, an item's content a list of content
\* items, a content item has a text attribute or has none.
RECURSIVE Flatten(_)
Flatten(seqs) ==
    IF seqs = <<>> THEN <<>> ELSE seqs[1] \o Flatten(Tail(seqs))

ContentItems(response) ==
    Flatten([i \in 1..Len(response.output) |-> response.output[i].content])

\* lines 339-374: the first content item with a text attribute decides
ExtractSummary(response) ==
    LET items == ContentItems(response)
        with_text == {i \in 1..Len(items) : items[i].has_text}
    IN IF with_text = {} THEN Exclude
       ELSE ProcessText(items[CHOOSE i \in with_text : \A j \in with_text : i <= j].text)

\* lines 269-378 with the except branch returning the exclude sentinel
get_summary_from_openai_error_excluded(outcome) ==
    IF outcome.raised
    THEN Exclude
    ELSE ExtractSummary(outcome.response)

\* lines 269-378, from the outcome of openai_client.responses.create
get_summary_from_openai(outcome) ==
    IF outcome.raised
    THEN ErrorPrefix \o outcome.error
    ELSE ExtractSummary(outcome.response)

\* ------------------------------------------ inputs: get_summary_from_openai

Pieces == {AnalysisStart, AnalysisEnd, Exclude, <<" ">>, <<"a">>, <<"b">>}

Texts(n) == {Flatten(p) : p \in SeqsUpTo(Pieces, n)}

TextItem(t) == [has_text |-> TRUE, text |-> t]
OtherItem == [has_text |-> FALSE, text |-> <<>>]

Returned(output) == [raised |-> FALSE, error |-> <<>>, response |-> [output |-> output]]
Raised(e) == [raised |-> TRUE, error |-> e, response |-> [output |-> <<>>]]

Outcomes ==
    {Returned(<<[content |-> <<TextItem(t)>>]>>) : t \in Texts(MaxPieces)}
    \cup {Returned(<<[content |-> <<>>], [content |-> <<OtherItem, TextItem(t), TextItem(<<"b">>)>>]>>) :
             t \in Texts(1)}
    \cup {Returned(<<>>), Returned(<<[content |-> <<OtherItem>>]>>)}
    \cup {Raised(<<"t", "i", "m", "e", "o", "u", "t">>), Raised(Exclude)}

InitSummary ==
    /\ pc = "get_summary_from_openai"
    /\ call \in [outcome : Outcomes]
    /\ ret = None
    /\ processed_messages = <<>>
    /\ it = 0
    /\ normalized = <<>>
    /\ channel = <<>>
    /\ replies_log = <<>>
    /\ MainIdle

\* get_summary_from_openai from the point where responses.create has returned
\* or raised
CallGetSummary ==
    /\ pc = "get_summary_from_openai"
    /\ ret' = get_summary_from_openai(call.outcome)
    /\ pc' = "returned"
    /\ UNCHANGED <<call, processed_messages, it, normalized, channel, replies_log>>
    /\ UNCHANGED mainvars

NextSummary == CallGetSummary

SpecSummary == InitSummary /\ [][NextSummary]_vars

\* --------------------------------------------- create_slack_message_blocks

Section(text) == [type |-> "section", text |-> [type |-> "mrkdwn", text |-> text]]

Divider == [type |-> "divider"]

\* line 410: f"*{SUMMARY_TITLE}*"
TitleBlock == Section(<<"*", "SUMMARY_TITLE", "*">>)

\* lines 418-432
ChannelBlocks(data) ==
    <<Section(<<"*Channel*: <#", data.id, "> (", data.name, ")">>),
      Section(<<"*Summary*:\n">> \o data.summary),
      Divider>>

\* lines 437-445
FallbackBlock ==
    Section(<<"No significant product feedback or feature requests in any customer channels today.">>)

\* line 415
HasSummary(data) == Strip(data.summary) # <<>> /\ data.summary # Exclude

\* lines 414-434: the blocks after the for loop
RECURSIVE Extended(_)
Extended(summary_data) ==
    IF summary_data = <<>> THEN <<TitleBlock, Divider>>
    ELSE LET blocks == Extended(SubSeq(summary_data, 1, Len(summary_data) - 1))
             data == summary_data[Len(summary_data)]
         IN IF HasSummary(data) THEN blocks \o ChannelBlocks(data) ELSE blocks

\* lines 436-447 with "if not blocks" for "if not blocks[2:]"
WithFallbackNever(blocks) ==
    IF blocks = <<>> THEN Append(blocks, FallbackBlock) ELSE blocks

\* lines 436-447
WithFallback(blocks) ==
    IF From(blocks, 2) = <<>> THEN Append(blocks, FallbackBlock) ELSE blocks

create_slack_message_blocks(summary_data) == WithFallback(Extended(summary_data))

\* -------------------------------------- inputs: create_slack_message_blocks

Summaries ==
    {<<>>, <<" ">>, Exclude, <<" ">> \o Exclude, <<"o", "k">>,
     ErrorPrefix \o <<"t", "i", "m", "e", "o", "u", "t">>}

ChannelRecords ==
    [id : {"C1", "C2"}, name : {"general"}, messages : {<<>>}, summary : Summaries]

InitBlocks ==
    /\ pc = "create_slack_message_blocks"
    /\ call \in [summary_data : SeqsUpTo(ChannelRecords, MaxRecords)]
    /\ ret = None
    /\ processed_messages = <<>>
    /\ it = 0
    /\ normalized = <<>>
    /\ channel = <<>>
    /\ replies_log = <<>>
    /\ MainIdle

\* create_slack_message_blocks called on its own
CallCreateBlocks ==
    /\ pc = "create_slack_message_blocks"
    /\ ret' = create_slack_message_blocks(call.summary_data)
    /\ pc' = "returned"
    /\ UNCHANGED <<call, processed_messages, it, normalized, channel, replies_log>>
    /\ UNCHANGED mainvars

NextBlocks == CallCreateBlocks

SpecBlocks == InitBlocks /\ [][NextBlocks]_vars

\* ----------------------------------------- claims: get_summary_from_openai

\* the model output: the text of the first content item that has one
HasModelOutput ==
    /\ ~call.outcome.raised
    /\ \E i \in 1..Len(ContentItems(call.outcome.response)) :
          ContentItems(call.outcome.response)[i].has_text

ModelOutput ==
    LET items == ContentItems(call.outcome.response)
    IN items[CHOOSE i \in 1..Len(items) :
                 /\ items[i].has_text
                 /\ \A j \in 1..(i - 1) : ~items[j].has_text].text

HasBothMarkers ==
    HasModelOutput /\ In(AnalysisStart, ModelOutput) /\ In(AnalysisEnd, ModelOutput)

First(s, sub) ==
    CHOOSE i \in 0..Len(s) :
        OccursAt(s, sub, i) /\ \A j \in 0..(i - 1) : ~OccursAt(s, sub, j)

\* the text before the first start marker and after the first end marker
TextBefore == SubSeq(ModelOutput, 1, First(ModelOutput, AnalysisStart))

TextAfter ==
    SubSeq(ModelOutput, First(ModelOutput, AnalysisEnd) + Len(AnalysisEnd) + 1,
           Len(ModelOutput))

NoMarkerIn(s) == ~In(AnalysisStart, s) /\ ~In(AnalysisEnd, s)

\* C8 as stated: for a model output that holds both markers, wherever they
\* stand, the summary is the text before the start marker and the text after
\* the end marker, each trimmed and joined by one space, and holds no marker.
C8_MarkersAnywhere ==
    (pc = "returned" /\ HasBothMarkers) =>
        /\ ret = Strip(TextBefore) \o <<" ">> \o Strip(TextAfter)
        /\ NoMarkerIn(ret)

\* C8 as amended: for a model output that holds both markers the summary is
\* the text before the first start marker and the text after the first end
\* marker, each trimmed, joined by one space and the whole trimmed again (no
\* space stays when a part is empty); it holds neither marker when the first
\* start marker stands before the first end marker and no marker follows that
\* end marker.
C8_FirstMarkersCut ==
    (pc = "returned" /\ HasBothMarkers) =>
        /\ ret = Strip(Strip(TextBefore) \o <<" ">> \o Strip(TextAfter))
        /\ (/\ First(ModelOutput, AnalysisStart) < First(ModelOutput, AnalysisEnd)
            /\ NoMarkerIn(TextAfter))
           => NoMarkerIn(ret)

\* text on both sides of one analysis section
C8_Witness ==
    /\ pc = "returned"
    /\ HasBothMarkers
    /\ ModelOutput = <<"a">> \o AnalysisStart \o <<"b">> \o AnalysisEnd \o <<" ">>
    /\ ret = <<"a">>

\* C9: when the model output holds "<EXCLUDE>" and not "<analysis>", the
\* summary is exactly "<EXCLUDE>", whatever surrounds the sentinel, and the
\* digest of a channel record with that summary has no section for it.
C9_SentinelShortCircuit ==
    (/\ pc = "returned"
     /\ HasModelOutput
     /\ In(Exclude, ModelOutput)
     /\ ~In(AnalysisStart, ModelOutput)) =>
        /\ ret = Exclude
        /\ create_slack_message_blocks(
               <<[id |-> "C1", name |-> "general", messages |-> <<>>, summary |-> ret]>>)
             = <<TitleBlock, Divider, FallbackBlock>>

\* the sentinel between other text and an end marker
C9_Witness ==
    /\ pc = "returned"
    /\ HasModelOutput
    /\ ModelOutput = <<"a">> \o Exclude \o AnalysisEnd \o <<"b">>
    /\ ret = Exclude

\* ------------------------------------- claims: create_slack_message_blocks

\* the records with a section in the digest, by the claim's rule and by the
\* amended rule
NonEmpty(data) == data.summary # <<>> /\ data.summary # Exclude

NonBlank(data) == Strip(data.summary) # <<>> /\ data.summary # Exclude

\* the records at the positions in I, in order
ChosenAt(records, I) == Pick(records, I)

ChosenNonEmpty ==
    ChosenAt(call.summary_data,
             {i \in 1..Len(call.summary_data) : NonEmpty(call.summary_data[i])})

ChosenNonBlank ==
    ChosenAt(call.summary_data,
             {i \in 1..Len(call.summary_data) : NonBlank(call.summary_data[i])})

\* the digest of the records chosen: title, divider, three blocks for each in
\* order, and the fallback block alone when none is chosen
DigestOf(chosen) ==
    LET k == Len(chosen)
    IN /\ Len(ret) = IF k = 0 THEN 3 ELSE 2 + 3 * k
       /\ ret[1] = TitleBlock
       /\ ret[2] = Divider
       /\ \A j \in 1..k :
             /\ ret[3 * j] = Section(<<"*Channel*: <#", chosen[j].id, "> (", chosen[j].name, ")">>)
             /\ ret[3 * j + 1] = Section(<<"*Summary*:\n">> \o chosen[j].summary)
             /\ ret[3 * j + 2] = Divider
       /\ k = 0 => ret[3] = FallbackBlock
       /\ k >= 1 => \A i \in 1..Len(ret) : ret[i] # FallbackBlock

\* C10 as stated: the digest has three blocks for every record whose summary
\* is non-empty and not "<EXCLUDE>".
C10_NonEmptySummaries ==
    pc = "returned" => DigestOf(ChosenNonEmpty)

\* C10 as amended: the digest has three blocks for every record whose summary
\* is not blank (not empty once whitespace is stripped) and not "<EXCLUDE>":
\* 2 + 3k blocks and no fallback block for k >= 1 such records, and title,
\* divider and the fallback block for k = 0.
C10_NonBlankSummaries ==
    pc = "returned" => DigestOf(ChosenNonBlank)

\* a blank summary, an excluded one and a real one: one section
C10_Witness ==
    /\ pc = "returned"
    /\ Len(call.summary_data) = 3
    /\ call.summary_data[1].summary = <<" ">>
    /\ call.summary_data[2].summary = Exclude
    /\ call.summary_data[3].summary = <<"o", "k">>
    /\ Len(ret) = 5

\* ------------------------------------------------ the workspace and the run

\* most channels users_conversations lists
MaxChannels == 3
\* most hours that pass while get_bot_channels awaits the platform
MaxElapsed == 1

\* the channels the bot is a member of, in the order users_conversations
\* lists them
ChannelPool ==
    <<[id |-> "C1", name |-> <<"g">>], [id |-> "C2", name |-> <<"d">>],
      [id |-> "C3", name |-> <<"D">>], [id |-> "C4", name |-> <<"h">>]>>

Listings ==
    {SubSeq(ChannelPool, 1, n) :
        n \in 0..(IF MaxChannels < Len(ChannelPool) THEN MaxChannels ELSE Len(ChannelPool))}

\* The messages of the channels inside the time window asked for.  C1 holds
\* a thread whose root a user or the bot wrote, with a user's and the bot's
\* reply; C2 a user's message; C3 a user's and the bot's message; C4 only a
\* message of the bot.
ThreadBy(user) ==
    <<Raw(user, None, "100", "100"), Raw("U2", None, "101", "100"),
      Raw("BOT", None, "102", "100")>>

ChannelMessages ==
    {[C1 |-> ThreadBy(user),
      C2 |-> <<Raw("U1", None, "101", None)>>,
      C3 |-> <<Raw("U2", None, "102", None), Raw("BOT", None, "103", None)>>,
      C4 |-> <<Raw("BOT", None, "104", None)>>] : user \in {"U1", "BOT"}}

Workspaces == [listing : Listings, messages : ChannelMessages]

\* lines 18-24: SUMMARY_CHANNEL with or without its leading "#",
\* IGNORE_CHANNELS the list of the ids given, RUN_DAILY either way
Configs ==
    [SUMMARY_CHANNEL : {<<"#", "d">>, <<"D">>},
     IGNORE_CHANNELS : {<<>>, <<"C1">>},
     RUN_DAILY : BOOLEAN]

\* Monday 10:00, Wednesday 10:00, Friday 23:00, Saturday 12:00 and Sunday
\* 12:00
Nows == {10, 58, 119, 132, 156}

\* str.lstrip(chars)
RECURSIVE LStripChars(_, _)
LStripChars(s, chars) ==
    IF s # <<>> /\ s[1] \in chars THEN LStripChars(Tail(s), chars) ELSE s

\* x in l for a list l
InList(x, l) == \E i \in 1..Len(l) : l[i] = x

\* lines 88-89 without the IGNORE_CHANNELS test
IsListedByName(c) == c.name # LStripChars(config.SUMMARY_CHANNEL, {"#"})

\* lines 88-89
IsListed(c) ==
    /\ c.name # LStripChars(config.SUMMARY_CHANNEL, {"#"})
    /\ ~InList(c.id, config.IGNORE_CHANNELS)

\* lines 77-94 with the bot's id returned also from the except branch
get_bot_channels_id_kept(auth, listing, result) ==
    [bot_user_id |-> "BOT", channels |-> <<>>]

\* lines 77-94 when no call raises anything but SlackApiError: auth and
\* listing are "ok" or "SlackApiError", result the channels listed
get_bot_channels(auth, listing, result) ==
    IF auth = "ok" /\ listing = "ok"
    THEN [bot_user_id |-> "BOT",
          channels |-> Pick(result, {i \in 1..Len(result) : IsListed(result[i])})]
    ELSE [bot_user_id |-> None, channels |-> <<>>]

\* datetime.timestamp(): seconds, from the hours of the model's datetime
timestamp(d) == d * 3600

\* a call of the platform or of the model, as issued
Called(api, target, args, outcome) ==
    [api |-> api, channel |-> target, args |-> args, outcome |-> outcome]

\* what the model answers to the prompt made of messages: a text that names
\* the messages, so that the answers to different prompts differ
Answer(messages) == <<"o", "n", " ">> \o [i \in 1..Len(messages) |-> messages[i].ts]

\* the outcomes of openai_client.responses.create for a prompt
Responses(messages) ==
    {Returned(<<[content |-> <<TextItem(Answer(messages))>>]>>),
     Returned(<<[content |-> <<TextItem(Exclude)>>]>>),
     Raised(<<"t", "i", "m", "e", "o", "u", "t">>)}

\* --------------------------------------------------------------------- main

\* The configuration is valid (validate_config, lines 36-62, raises nothing).
InitMain ==
    /\ main_pc = "main"
    /\ config \in Configs
    /\ clock \in Nows
    /\ workspace \in Workspaces
    /\ window = <<>>
    /\ bot_channels = [bot_user_id |-> None, channels |-> <<>>]
    /\ fetches = <<>>
    /\ channel_data = <<>>
    /\ summaries = <<>>
    /\ digest = <<>>
    /\ calls = <<>>
    /\ pc = "idle"
    /\ call = [channel_id |-> None, messages |-> <<>>, bot_user_id |-> None]
    /\ ret = <<>>
    /\ processed_messages = <<>>
    /\ it = 0
    /\ normalized = <<>>
    /\ channel = <<>>
    /\ replies_log = <<>>

procvars == <<pc, call, ret, processed_messages, it, normalized, channel, replies_log>>

\* lines 501-504: the time range is checked first; on a weekend of a run
\* that is not daily main returns
CheckTimeRange ==
    /\ main_pc = "main"
    /\ window' = get_time_range(clock, config.RUN_DAILY)
    /\ main_pc' = IF window'[1] = Nothing THEN "skipped" ELSE "get_bot_channels"
    /\ UNCHANGED <<config, clock, workspace, bot_channels, fetches, channel_data,
                   summaries, digest, calls>>
    /\ UNCHANGED procvars

\* lines 510-513 with get_bot_channels (lines 77-94): auth_test, then
\* users_conversations; a SlackApiError of either gives (None, []) and main
\* raises ValueError, any other exception leaves get_bot_channels and main
GetBotChannels ==
    /\ main_pc = "get_bot_channels"
    /\ \E elapsed \in 0..MaxElapsed : clock' = clock + elapsed
    /\ \E auth \in {"ok", "SlackApiError", "Exception"},
          listing \in {"ok", "SlackApiError", "Exception"} :
          LET auth_test == Called("auth_test", None, <<>>, auth)
              users_conversations == Called("users_conversations", None, <<"BOT">>, listing)
          IN /\ calls' = IF auth = "ok"
                         THEN calls \o <<auth_test, users_conversations>>
                         ELSE Append(calls, auth_test)
             /\ IF auth = "Exception" \/ (auth = "ok" /\ listing = "Exception")
                THEN /\ main_pc' = "raised"
                     /\ UNCHANGED bot_channels
                ELSE /\ bot_channels' = get_bot_channels(auth, listing, workspace.listing)
                     /\ main_pc' = IF Truthy(bot_channels'.bot_user_id)
                                   THEN "process_channels" ELSE "raised"
    /\ UNCHANGED <<config, workspace, window, fetches, channel_data, summaries, digest>>
    /\ UNCHANGED procvars

\* lines 463-467 up to the await: get_time_range is called again, one
\* fetch_messages is made for every channel and each issues its
\* conversations_history (lines 135-139).  Without a start_time line 137
\* raises AttributeError, which line 141 does not catch.
ProcessChannels ==
    /\ main_pc = "process_channels"
    /\ LET range == get_time_range(clock, config.RUN_DAILY)
           start_time == range[1]
           end_time == range[2]
           channels == bot_channels.channels
       IN IF channels # <<>> /\ start_time = Nothing
          THEN /\ main_pc' = "raised"
               /\ UNCHANGED <<fetches, calls>>
          ELSE /\ fetches' =
                     [i \in 1..Len(channels) |->
                         [channel |-> channels[i].id,
                          oldest |-> timestamp(start_time[1]),
                          latest |-> timestamp(end_time[1]),
                          state |-> "issued", outcome |-> "pending",
                          messages |-> <<>>]]
               /\ calls' = calls \o
                     [i \in 1..Len(channels) |->
                         Called("conversations_history", channels[i].id,
                                <<timestamp(start_time[1]), timestamp(end_time[1])>>,
                                "pending")]
               /\ main_pc' = IF channels = <<>> THEN "for channel" ELSE "gather fetches"
    /\ UNCHANGED <<config, clock, workspace, window, bot_channels, channel_data,
                   summaries, digest>>
    /\ UNCHANGED procvars

\* a gather that returns with the first task that is done
AnyDone(tasks) == \E i \in 1..Len(tasks) : tasks[i].state = "done"

\* asyncio.gather (lines 467 and 527) returns when every task is done
AllDone(tasks) == \A i \in 1..Len(tasks) : tasks[i].state = "done"

\* lines 133-145 from the point where conversations_history answers, and
\* line 467: the gather returns when the last fetch is done, and raises what
\* a fetch raises
FetchCompletes(i) ==
    /\ main_pc = "gather fetches"
    /\ fetches[i].state = "issued"
    /\ \/ /\ fetches' = [fetches EXCEPT ![i].state = "done", ![i].outcome = "ok",
                            ![i].messages =
                                History(workspace.messages[fetches[i].channel], "newest first")]
          /\ main_pc' = IF AllDone(fetches') THEN "for channel" ELSE "gather fetches"
       \/ \* SlackApiError: messages stays []
          /\ fetches' = [fetches EXCEPT ![i].state = "done",
                            ![i].outcome = "SlackApiError"]
          /\ main_pc' = IF AllDone(fetches') THEN "for channel" ELSE "gather fetches"
       \/ \* any other exception
          /\ fetches' = [fetches EXCEPT ![i].state = "raised",
                            ![i].outcome = "Exception"]
          /\ main_pc' = "raised"
    /\ UNCHANGED <<config, clock, workspace, window, bot_channels, channel_data,
                   summaries, digest, calls>>
    /\ UNCHANGED procvars

\* lines 470-473: process_messages is called for the next channel and its
\* fetched messages
CallProcessMessages ==
    /\ main_pc = "for channel"
    /\ Len(channel_data) < Len(bot_channels.channels)
    /\ LET i == Len(channel_data) + 1
       IN /\ call' = [channel_id |-> bot_channels.channels[i].id,
                      messages |-> fetches[i].messages,
                      bot_user_id |-> bot_channels.bot_user_id]
          /\ channel' = workspace.messages[bot_channels.channels[i].id]
    /\ pc' = "process_messages"
    /\ main_pc' = "process_messages"
    /\ UNCHANGED <<ret, processed_messages, it, normalized, replies_log>>
    /\ UNCHANGED <<config, clock, workspace, window, bot_channels, fetches,
                   channel_data, summaries, digest, calls>>

\* lines 474-480
AppendChannelInfo ==
    /\ main_pc = "process_messages"
    /\ pc = "returned"
    /\ LET i == Len(channel_data) + 1
       IN channel_data' = Append(channel_data,
              [id |-> bot_channels.channels[i].id,
               name |-> bot_channels.channels[i].name,
               messages |-> ret, summary |-> <<>>])
    /\ pc' = "idle"
    /\ main_pc' = "for channel"
    /\ UNCHANGED <<call, ret, processed_messages, it, normalized, channel, replies_log>>
    /\ UNCHANGED <<config, clock, workspace, window, bot_channels, fetches,
                   summaries, digest, calls>>

\* what process_messages raises leaves process_channels and main (line 549)
ProcessMessagesRaised ==
    /\ main_pc = "process_messages"
    /\ pc = "raised"
    /\ main_pc' = "raised"
    /\ UNCHANGED <<config, clock, workspace, window, bot_channels, fetches,
                   channel_data, summaries, digest, calls>>
    /\ UNCHANGED procvars

\* lines 524 and 530 without the "if channel["messages"]"
WithMessagesOrNot(data) == data

\* the channel_info dicts that have messages (lines 524 and 530)
WithMessages(data) == Pick(data, {i \in 1..Len(data) : data[i].messages # <<>>})

\* lines 520-527 up to the await: when every channel is processed,
\* process_channels returns and one get_summary task is created for every
\* channel that has messages; each issues its responses.create (line 334)
CreateSummaryTasks ==
    /\ main_pc = "for channel"
    /\ Len(channel_data) = Len(bot_channels.channels)
    /\ LET with_messages == WithMessages(channel_data)
       IN /\ summaries' =
                [j \in 1..Len(with_messages) |->
                    [messages |-> with_messages[j].messages,
                     state |-> "issued", outcome |-> "pending", summary |-> <<>>]]
          /\ calls' = calls \o
                [j \in 1..Len(with_messages) |->
                    Called("responses.create", with_messages[j].id,
                           with_messages[j].messages, "pending")]
          /\ main_pc' = IF with_messages = <<>> THEN "assemble" ELSE "gather summaries"
    /\ UNCHANGED <<config, clock, workspace, window, bot_channels, fetches,
                   channel_data, digest>>
    /\ UNCHANGED procvars

\* lines 334-378 from the point where responses.create answers or raises,
\* and line 527: the gather returns when the last task is done
SummaryCompletes(j) ==
    /\ main_pc = "gather summaries"
    /\ summaries[j].state = "issued"
    /\ \E outcome \in Responses(summaries[j].messages) :
          summaries' = [summaries EXCEPT ![j].state = "done",
                           ![j].outcome = IF outcome.raised THEN "raised" ELSE "returned",
                           ![j].summary = get_summary_from_openai(outcome)]
    /\ main_pc' = IF AllDone(summaries') THEN "assemble" ELSE "gather summaries"
    /\ UNCHANGED <<config, clock, workspace, window, bot_channels, fetches,
                   channel_data, digest, calls>>
    /\ UNCHANGED procvars

\* lines 529-532 with the summaries taken in the reverse of the tasks' order
ZippedReversed(data, results) ==
    [i \in 1..Len(data) |->
        IF data[i].messages # <<>>
        THEN [data[i] EXCEPT !.summary =
                 results[Len(results) + 1
                         - Cardinality({k \in 1..i : data[k].messages # <<>>})].summary]
        ELSE data[i]]

\* lines 529-532: zip gives the j-th summary to the j-th channel that has
\* messages
Zipped(data, results) ==
    [i \in 1..Len(data) |->
        IF data[i].messages # <<>>
        THEN [data[i] EXCEPT !.summary =
                 results[Cardinality({k \in 1..i : data[k].messages # <<>>})].summary]
        ELSE data[i]]

\* lines 529-534
Assemble ==
    /\ main_pc = "assemble"
    /\ channel_data' = Zipped(channel_data, summaries)
    /\ digest' = create_slack_message_blocks(channel_data')
    /\ main_pc' = "post"
    /\ UNCHANGED <<config, clock, workspace, window, bot_channels, fetches,
                   summaries, calls>>
    /\ UNCHANGED procvars

\* lines 540-549 with every failure of the post taken as success
AfterPostSwallowed(outcome) == "returned"

\* lines 540-549: what chat_postMessage raises, SlackApiError or not, is
\* raised again
AfterPost(outcome) == IF outcome = "ok" THEN "returned" ELSE "raised"

\* lines 536-549: chat_postMessage
Post ==
    /\ main_pc = "post"
    /\ \E outcome \in {"ok", "SlackApiError", "Exception"} :
          /\ calls' = Append(calls,
                 Called("chat_postMessage", config.SUMMARY_CHANNEL, digest, outcome))
          /\ main_pc' = AfterPost(outcome)
    /\ UNCHANGED <<config, clock, workspace, window, bot_channels, fetches,
                   channel_data, summaries, digest>>
    /\ UNCHANGED procvars

NextMain ==
    \/ CheckTimeRange
    \/ GetBotChannels
    \/ ProcessChannels
    \/ \E i \in 1..Len(fetches) : FetchCompletes(i)
    \/ CallProcessMessages
    \/ Format
    \/ Skip
    \/ Reconstruct
    \/ Return
    \/ AppendChannelInfo
    \/ ProcessMessagesRaised
    \/ CreateSummaryTasks
    \/ \E j \in 1..Len(summaries) : SummaryCompletes(j)
    \/ Assemble
    \/ Post

SpecMain == InitMain /\ [][NextMain]_vars

\* ------------------------------------------------------------- claims: main

\* the calls of one api issued so far, in order
CallsOf(api) == Pick(calls, {k \in 1..Len(calls) : calls[k].api = api})

Posted == CallsOf("chat_postMessage") # <<>>

\* the digest holds the channel-identity block and the summary block of the
\* channel id
HasSectionFor(blocks, id) ==
    \E k \in 1..Len(blocks) :
        /\ blocks[k].type = "section"
        /\ Len(blocks[k].text.text) = 5
        /\ blocks[k].text.text[1] = "*Channel*: <#"
        /\ blocks[k].text.text[2] = id

InDigest(id) ==
    \/ HasSectionFor(digest, id)
    \/ \E k \in 1..Len(calls) :
          calls[k].api = "chat_postMessage" /\ HasSectionFor(calls[k].args, id)

InvokedFor(id) ==
    \E k \in 1..Len(calls) : calls[k].api = "responses.create" /\ calls[k].channel = id

\* C11: a channel whose message sequence is empty after normalization and
\* thread reconstruction gets no get_summary task and no model call, keeps
\* the empty string as its summary, and has no channel-identity or summary
\* block in the digest.
C11_EmptyChannelNeverSummarized ==
    /\ \A i \in 1..Len(channel_data) :
          channel_data[i].messages = <<>> =>
              /\ channel_data[i].summary = <<>>
              /\ ~InvokedFor(channel_data[i].id)
              /\ ~InDigest(channel_data[i].id)
    /\ \A j \in 1..Len(summaries) : summaries[j].messages # <<>>
    /\ Len(summaries) <= Len(WithMessages(channel_data))

\* a run that posted a digest with a section, with a channel whose fetched
\* messages were all filtered out
C11_Witness ==
    /\ main_pc = "returned"
    /\ \E i \in 1..Len(channel_data) :
          /\ channel_data[i].messages = <<>>
          /\ fetches[i].outcome = "ok"
          /\ fetches[i].messages # <<>>
    /\ \E i \in 1..Len(channel_data) : InDigest(channel_data[i].id)

\* the history fetch of the i-th channel has failed
FetchFailed(i) == fetches[i].outcome \in {"SlackApiError", "Exception"}

\* the run has ended in an error before it posted anything
RaisedBeforePost == main_pc = "raised" /\ ~Posted

\* the i-th channel's fetch result has been normalized and reconstructed
Processed(i) == i <= Len(channel_data)

\* C12: a failed history fetch, whatever the failure, leaves its channel
\* with an empty message list and is never raised out of process_channels:
\* the run does not end in an error before the post.
C12_FetchFailureIsolated ==
    \A i \in 1..Len(fetches) :
        FetchFailed(i) => fetches[i].messages = <<>> /\ ~RaisedBeforePost

\* a fetch failed with an exception that is no SlackApiError: the run ended
\* in that error with the other channel's fetched messages never processed
C12_Witness ==
    /\ RaisedBeforePost
    /\ \E i, j \in 1..Len(fetches) :
          /\ fetches[i].outcome = "Exception"
          /\ fetches[j].outcome = "ok"
          /\ fetches[j].messages # <<>>
          /\ ~Processed(j)
    /\ CallsOf("responses.create") = <<>>

\* the model invocation of the j-th get_summary task has failed
InvocationFailed(j) == summaries[j].outcome = "raised"

SomeInvocationFailed == \E j \in 1..Len(summaries) : InvocationFailed(j)

\* text is an error message of get_summary_from_openai
IsErrorMessage(text) ==
    Len(text) >= Len(ErrorPrefix) /\ SubSeq(text, 1, Len(ErrorPrefix)) = ErrorPrefix

\* the digest has been assembled (it holds the title block at least)
Assembled == digest # <<>>

\* every task's summary is the summary of the channel the task was made for
SummariesKept ==
    LET with_messages == WithMessages(channel_data)
    IN /\ Len(with_messages) = Len(summaries)
       /\ \A j \in 1..Len(summaries) :
             /\ with_messages[j].messages = summaries[j].messages
             /\ with_messages[j].summary = summaries[j].summary

\* the run is on its way to the post: the gather of the summaries, the
\* assembly or the post is the step to come, and it can be taken
TowardsPost ==
    /\ main_pc \in {"gather summaries", "assemble", "post"}
    /\ ENABLED ((\E j \in 1..Len(summaries) : SummaryCompletes(j)) \/ Assemble \/ Post)

\* C13: a failed model invocation gives its channel a textual error message
\* as summary and raises nothing; the other invocations complete, every
\* summary is kept, and the run goes on to digest assembly and the post.
C13_InvocationFailureIsolated ==
    /\ \A j \in 1..Len(summaries) :
          InvocationFailed(j) => IsErrorMessage(summaries[j].summary)
    /\ SomeInvocationFailed => ~RaisedBeforePost
    /\ SomeInvocationFailed /\ ~Posted => TowardsPost
    /\ Assembled => AllDone(summaries) /\ SummariesKept

\* a run that posted after one invocation failed and another returned the
\* model's text
C13_Witness ==
    /\ main_pc = "returned"
    /\ \E j, k \in 1..Len(summaries) :
          /\ InvocationFailed(j)
          /\ summaries[k].outcome = "returned"
          /\ summaries[k].summary = Answer(summaries[k].messages)
    /\ SummariesKept

\* the task made for the i-th channel, which has messages
TaskOf(i) == Cardinality({k \in 1..i : channel_data[k].messages # <<>>})

\* the summarization of the i-th channel has failed
SummarizationFailed(i) ==
    /\ i <= Len(channel_data)
    /\ channel_data[i].messages # <<>>
    /\ TaskOf(i) <= Len(summaries)
    /\ InvocationFailed(TaskOf(i))

\* the blocks that were posted
PostedBlocks == CallsOf("chat_postMessage")[1].args

\* blocks holds the channel's identity block, followed by a summary block
\* with an error message
HasErrorSectionFor(blocks, data) ==
    \E k \in 1..(Len(blocks) - 1) :
        /\ blocks[k] = ChannelBlocks(data)[1]
        /\ blocks[k + 1].type = "section"
        /\ IsErrorMessage(Tail(blocks[k + 1].text.text))

\* C14 as stated: a channel whose fetch or whose summarization failed has
\* no section in the posted digest.
C14_FailedChannelsLeftOut ==
    Posted =>
        \A i \in 1..Len(channel_data) :
            FetchFailed(i) \/ SummarizationFailed(i) =>
                ~HasSectionFor(PostedBlocks, channel_data[i].id)

\* C14: in the posted digest a channel whose history fetch failed (with a
\* SlackApiError, or nothing is posted) has no section, and a channel whose
\* summarization failed has a section whose summary block carries the error
\* message.
C14_FetchLeftOutErrorShown ==
    Posted =>
        \A i \in 1..Len(channel_data) :
            /\ FetchFailed(i) =>
                  /\ fetches[i].outcome = "SlackApiError"
                  /\ ~HasSectionFor(PostedBlocks, channel_data[i].id)
            /\ SummarizationFailed(i) =>
                  HasErrorSectionFor(PostedBlocks, channel_data[i])

\* a digest posted after one channel's fetch and another channel's
\* summarization failed
C14_Witness ==
    /\ Posted
    /\ \E i, k \in 1..Len(channel_data) :
          /\ fetches[i].outcome = "SlackApiError"
          /\ SummarizationFailed(k)
          /\ HasErrorSectionFor(PostedBlocks, channel_data[k])

\* normalization or thread reconstruction has begun for some channel
ProcessingBegun ==
    \/ main_pc = "process_messages" /\ pc # "process_messages"
    \/ channel_data # <<>>
    \/ replies_log # <<>>

\* every channel's history fetch has been issued and has completed
EveryFetchCompleted ==
    /\ Len(fetches) = Len(bot_channels.channels)
    /\ \A i \in 1..Len(fetches) : fetches[i].state = "done"

\* every model invocation has been issued: one for each channel that has
\* messages, in the order of the channels
EveryInvocationIssued ==
    LET with_messages == WithMessages(channel_data)
        issued == CallsOf("responses.create")
    IN /\ Len(channel_data) = Len(bot_channels.channels)
       /\ Len(issued) = Len(with_messages)
       /\ Len(summaries) = Len(with_messages)
       /\ \A j \in 1..Len(issued) : issued[j].channel = with_messages[j].id

EveryInvocationCompleted ==
    \A j \in 1..Len(summaries) : summaries[j].state = "done"

SomeInvocationCompleted ==
    \E j \in 1..Len(summaries) : summaries[j].state = "done"

\* C15: (1) normalization and reply fetches begin only when every channel's
\* history fetch has completed; (2) every model invocation is issued before
\* any of them completes, and digest assembly and the post begin only when
\* every invocation has completed.
C15_TwoBarriers ==
    /\ ProcessingBegun => EveryFetchCompleted
    /\ SomeInvocationCompleted => EveryInvocationIssued
    /\ Assembled \/ Posted => EveryInvocationIssued /\ EveryInvocationCompleted

\* a run with two history fetches, a reply fetch and two invocations that
\* reached the post
C15_Witness ==
    /\ Posted
    /\ Len(fetches) >= 2
    /\ Len(summaries) >= 2
    /\ replies_log # <<>>

\* no call of the platform or of the model has been issued
NothingIssued ==
    /\ calls = <<>>
    /\ replies_log = <<>>
    /\ fetches = <<>>
    /\ summaries = <<>>

\* The run started on a Saturday or Sunday and is not daily.  The clock
\* moves only while get_bot_channels awaits, which issues a call, so with
\* no call issued it still shows the time the run started at.
StartedOnWeekend ==
    ~config.RUN_DAILY /\ calls = <<>> /\ weekday(clock) \in {5, 6}

\* C16: a run that is not daily and starts on a Saturday or Sunday returns
\* from main without an error, and issues no identity check, channel
\* listing, history fetch, reply fetch, model invocation or post.
C16_WeekendSkip ==
    /\ StartedOnWeekend => main_pc \in {"main", "skipped"} /\ NothingIssued
    /\ main_pc = "skipped" => StartedOnWeekend /\ NothingIssued /\ digest = <<>>

\* main has returned on a Saturday without a call
C16_Witness ==
    main_pc = "skipped" /\ weekday(clock) = 5 /\ ~config.RUN_DAILY /\ calls = <<>>

\* auth_test or users_conversations has failed
IdentityCallFailed ==
    \E k \in 1..Len(calls) :
        calls[k].api \in {"auth_test", "users_conversations"} /\ calls[k].outcome # "ok"

\* get_bot_channels is over and main holds no bot id
NoBotId ==
    /\ main_pc \notin {"main", "skipped", "get_bot_channels"}
    /\ ~Truthy(bot_channels.bot_user_id)

\* C17: when the identity check fails (auth_test or the channel listing
\* fails, so that no bot id is obtained) the run ends in an error, and no
\* history fetch, reply fetch, model invocation or post is issued.
C17_IdentityFailureAborts ==
    /\ IdentityCallFailed => NoBotId
    /\ NoBotId =>
          /\ main_pc = "raised"
          /\ CallsOf("conversations_history") = <<>>
          /\ CallsOf("responses.create") = <<>>
          /\ CallsOf("chat_postMessage") = <<>>
          /\ replies_log = <<>>
          /\ fetches = <<>> /\ summaries = <<>> /\ digest = <<>>

\* auth_test answered and the channel listing raised a SlackApiError: the
\* run has ended in an error
C17_Witness ==
    /\ main_pc = "raised"
    /\ Len(calls) = 2
    /\ calls[1].outcome = "ok"
    /\ calls[2].api = "users_conversations"
    /\ calls[2].outcome = "SlackApiError"
    /\ workspace.listing # <<>>

\* C18: chat_postMessage is called at most once in a run, as the last call
\* and with the assembled digest; main returns after it only when it
\* succeeded, and a failed post ends the run in an error.
C18_OnePostDecidesTheRun ==
    /\ Len(CallsOf("chat_postMessage")) <= 1
    /\ Posted =>
          /\ Assembled
          /\ calls[Len(calls)].api = "chat_postMessage"
          /\ PostedBlocks = digest
          /\ digest = create_slack_message_blocks(channel_data)
          /\ main_pc = IF calls[Len(calls)].outcome = "ok" THEN "returned" ELSE "raised"
    /\ main_pc = "returned" => Posted /\ calls[Len(calls)].outcome = "ok"

\* the post failed with a SlackApiError and the run has ended in an error
C18_Witness ==
    /\ main_pc = "raised"
    /\ Posted
    /\ calls[Len(calls)].outcome = "SlackApiError"
    /\ Len(PostedBlocks) > 3

\* the configured destination channel without its leading "#" marker
DestinationName ==
    IF config.SUMMARY_CHANNEL # <<>> /\ config.SUMMARY_CHANNEL[1] = "#"
    THEN Tail(config.SUMMARY_CHANNEL)
    ELSE config.SUMMARY_CHANNEL

IgnoreSet == {config.IGNORE_CHANNELS[k] : k \in 1..Len(config.IGNORE_CHANNELS)}

\* a channel that must not be processed
Excluded(c) == c.name = DestinationName \/ c.id \in IgnoreSet

\* some call, task or record of the run is about the channel id
Touched(id) ==
    \/ \E k \in 1..Len(calls) :
          calls[k].api \in {"conversations_history", "responses.create"}
              /\ calls[k].channel = id
    \/ \E k \in 1..Len(replies_log) : replies_log[k].channel = id
    \/ \E k \in 1..Len(fetches) : fetches[k].channel = id
    \/ \E k \in 1..Len(channel_data) : channel_data[k].id = id
    \/ call.channel_id = id
    \/ InDigest(id)

\* C19: no history fetch, reply fetch or model invocation is ever issued
\* for a channel named as the destination channel (without the "#", case
\* kept) or held in the ignore set, and the digest has no section for it.
C19_ExcludedChannelsUntouched ==
    \A n \in 1..Len(workspace.listing) :
        Excluded(workspace.listing[n]) => ~Touched(workspace.listing[n].id)

\* a digest posted with a section for the channel whose name differs from
\* the destination's by case only, while the listing held the destination
\* channel and an ignored channel
C19_Witness ==
    /\ Posted
    /\ \E a, b, c \in 1..Len(workspace.listing) :
          /\ workspace.listing[a].name = DestinationName
          /\ workspace.listing[b].id \in IgnoreSet
          /\ workspace.listing[c].name = <<"D">>
          /\ DestinationName = <<"d">>
          /\ HasSectionFor(PostedBlocks, workspace.listing[c].id)

\* no message of the sequence is written by the bot
NoBotMessage(messages) ==
    \A k \in 1..Len(messages) : messages[k].user # bot_channels.bot_user_id

\* the platform holds a message of the bot in the messages it answers with
BotWrote(raw) == \E k \in 1..Len(raw) : raw[k].user = bot_channels.bot_user_id

\* C20: no message sequence of the pipeline holds a message written by the
\* bot: not the normalized sequence, not the sequence after a splice, not
\* the replies that are spliced in, not a channel's final sequence and not
\* the sequence serialized into a model prompt.
C20_NoBotMessageAnywhere ==
    /\ NoBotMessage(normalized)
    /\ NoBotMessage(processed_messages)
    /\ pc = "returned" => NoBotMessage(ret)
    /\ \A k \in 1..Len(replies_log) : NoBotMessage(replies_log[k].replies)
    /\ \A i \in 1..Len(channel_data) : NoBotMessage(channel_data[i].messages)
    /\ \A j \in 1..Len(summaries) : NoBotMessage(summaries[j].messages)
    /\ \A k \in 1..Len(calls) :
          calls[k].api = "responses.create" => NoBotMessage(calls[k].args)

\* a model prompt made of a thread and its spliced reply, where the reply
\* fetch answered with a reply of the bot too, and a history fetch with a
\* message of the bot
C20_Witness ==
    /\ \E k \in 1..Len(replies_log) :
          /\ replies_log[k].outcome = "ok"
          /\ replies_log[k].replies # <<>>
          /\ BotWrote(Replies(workspace.messages[replies_log[k].channel], replies_log[k].ts))
          /\ \E c \in 1..Len(calls) :
                /\ calls[c].api = "responses.create"
                /\ calls[c].channel = replies_log[k].channel
                /\ Len(calls[c].args) = 2
    /\ \E i \in 1..Len(fetches) : BotWrote(fetches[i].messages)

\* ------------------------------------------- claims: the reconstruction loop

\* the timestamps of the thread roots of a sequence, in its order
ThreadRootTs(s) == TsOf(Pick(s, {i \in 1..Len(s) : IsThreadRoot(s[i])}))

\* the timestamps the reply fetches were made for, in the order of the calls
FetchedTs == TsOf(replies_log)

IsPrefix(s, t) == Len(s) <= Len(t) /\ \A k \in 1..Len(s) : s[k] = t[k]

\* the number of replies spliced in so far
RECURSIVE SplicedCount(_)
SplicedCount(log) ==
    IF log = <<>> THEN 0 ELSE Len(log[1].replies) + SplicedCount(Tail(log))

\* C21: the reply fetches of process_messages are made for the thread roots
\* of the normalized sequence, one for each, in the order of that sequence,
\* and for nothing else: a message that a splice inserted causes no fetch,
\* although the iterator runs over the list that is spliced.  The list
\* grows by the fetched replies only, so the loop ends.
C21_FetchesFollowOriginalRoots ==
    /\ IsPrefix(FetchedTs, ThreadRootTs(normalized))
    /\ pc = "returned" => FetchedTs = ThreadRootTs(normalized)
    /\ Len(processed_messages) = Len(normalized) + SplicedCount(replies_log)
    /\ it <= Len(processed_messages)

\* process_messages has returned after two fetches, the first of which
\* spliced a reply in front of the second root: the iterator went over the
\* inserted reply
C21_Witness ==
    /\ pc = "returned"
    /\ Len(replies_log) = 2
    /\ replies_log[1].replies # <<>>
    /\ Len(ret) = 3
    /\ ret[2] = replies_log[1].replies[1]
    /\ ret[3].ts = replies_log[2].ts

\* the k-th reply fetch has failed
ReplyFetchFailed(k) == replies_log[k].outcome \in {"SlackApiError", "Exception"}

\* C22: a failed reply fetch, whatever the failure, counts as an empty reply
\* list and is never raised out of process_messages.
C22_ReplyFailureIsolated ==
    \A k \in 1..Len(replies_log) :
        ReplyFetchFailed(k) => replies_log[k].replies = <<>> /\ pc # "raised"

\* the reply fetch for the first of two thread roots failed with an
\* exception that is no SlackApiError: process_messages has raised it and
\* the second root's replies were never fetched
C22_Witness ==
    /\ pc = "raised"
    /\ Len(replies_log) = 1
    /\ replies_log[1].outcome = "Exception"
    /\ Len(ThreadRootTs(normalized)) = 2
    /\ processed_messages = normalized

\* ------------------------------------------------ claims: the run's window

\* the i-th history fetch is bounded by the window main resolved (line 501)
UsesMainWindow(i) ==
    /\ window[1] # Nothing
    /\ fetches[i].oldest = timestamp(window[1][1])
    /\ fetches[i].latest = timestamp(window[2][1])

\* process_channels resolved no window (line 463) where main had one, and
\* its fetches raised on the missing start_time (line 137)
FetchedWithoutWindow ==
    /\ main_pc = "raised"
    /\ Truthy(bot_channels.bot_user_id)
    /\ bot_channels.channels # <<>>
    /\ fetches = <<>>

\* C23: every history fetch is bounded by the window main resolved at the
\* start of the run, and none is attempted with the skip sentinel, whatever
\* time passes before the fetches.
C23_FetchesUseMainWindow ==
    /\ \A i \in 1..Len(fetches) : UsesMainWindow(i)
    /\ ~FetchedWithoutWindow

\* an hour passed during get_bot_channels: the fetch is bounded an hour later
\* than the window main resolved
C23_Witness ==
    /\ fetches # <<>>
    /\ window[1] # Nothing
    /\ fetches[1].latest = timestamp(window[2][1] + MaxElapsed)
    /\ fetches[1].oldest # timestamp(window[1][1])

\* ------------------------------------------------ claims: completion order

\* the channel ids of the channel-identity blocks of a digest, in its order
SectionIds(blocks) ==
    LET identity == Pick(blocks, {k \in 1..Len(blocks) :
                            /\ blocks[k].type = "section"
                            /\ Len(blocks[k].text.text) = 5
                            /\ blocks[k].text.text[1] = "*Channel*: <#"})
    IN [k \in 1..Len(identity) |-> identity[k].text.text[2]]

IdsOf(s) == [k \in 1..Len(s) |-> s[k].id]

\* what format_messages makes of the messages the platform holds for id
OwnMessages(id) ==
    {FormattedMessage(workspace.messages[id][k]) : k \in 1..Len(workspace.messages[id])}

\* the i-th channel_info holds its own channel's fetch result, processed
OwnFetch(i) ==
    /\ channel_data[i].id = bot_channels.channels[i].id
    /\ channel_data[i].name = bot_channels.channels[i].name
    /\ fetches[i].channel = channel_data[i].id
    /\ fetches[i].messages \in
          {<<>>, History(workspace.messages[channel_data[i].id], "newest first")}
    /\ IsSubsequence(format_messages(fetches[i].messages, bot_channels.bot_user_id),
                     channel_data[i].messages)
    /\ \A k \in 1..Len(channel_data[i].messages) :
          channel_data[i].messages[k] \in OwnMessages(channel_data[i].id)

\* the i-th channel_info holds the summary of the invocation made on its
\* own messages, or "" when it has no messages
OwnSummary(i) ==
    IF channel_data[i].messages = <<>>
    THEN channel_data[i].summary = <<>>
    ELSE /\ summaries[TaskOf(i)].messages = channel_data[i].messages
         /\ channel_data[i].summary = summaries[TaskOf(i)].summary
         /\ channel_data[i].summary \in
               {get_summary_from_openai(o) : o \in Responses(channel_data[i].messages)}

\* C24: whatever the order in which the fetches and the invocations
\* complete, every channel record holds the messages fetched for its own
\* channel and, once the digest is assembled, the summary of the invocation
\* made on its own messages; the records and the digest's sections are in
\* the order of the channel listing, and the digest posted is the one made
\* of these records.
C24_OwnResultsInListingOrder ==
    /\ \A i \in 1..Len(channel_data) : OwnFetch(i)
    /\ IsSubsequence(IdsOf(channel_data), IdsOf(workspace.listing))
    /\ Assembled =>
          /\ \A i \in 1..Len(channel_data) : OwnSummary(i)
          /\ digest = create_slack_message_blocks(channel_data)
          /\ IsSubsequence(SectionIds(digest), IdsOf(workspace.listing))
    /\ Posted => PostedBlocks = digest

\* a digest posted with the sections of two channels, each with the model's
\* answer to its own messages
C24_Witness ==
    /\ Posted
    /\ Len(SectionIds(PostedBlocks)) = 2
    /\ Len(summaries) = 2
    /\ \A j \in 1..2 : summaries[j].summary = Answer(summaries[j].messages)
    /\ summaries[1].summary # summaries[2].summary

\* --------------------------------------------------- claims: no duplicates

\* every message of the channel has a timestamp of its own
DistinctTs(s) == \A i, j \in 1..Len(s) : i # j => s[i].ts # s[j].ts

\* C25: with a timestamp of its own for every message of the channel, the
\* timestamps of the sequence process_messages returns are pairwise
\* distinct, also when a thread_broadcast reply is in the history and in
\* its root's reply list.
C25_NoMessageTwice ==
    (pc = "returned" /\ DistinctTs(channel)) => DistinctTs(ret)

\* a broadcast reply that the history and the reply fetch both returned
\* stands twice in the returned sequence
C25_Witness ==
    /\ pc = "returned"
    /\ DistinctTs(channel)
    /\ \E m \in Elements(channel) :
          /\ m.subtype = "thread_broadcast"
          /\ Count(TsOf(ret), m.ts) = 2
          /\ Count(TsOf(call.messages), m.ts) = 1
          /\ \E k \in 1..Len(replies_log) :
                Count(TsOf(replies_log[k].replies), m.ts) = 1

====
